---- MODULE Spec2Model ----
(***************************************************************************)
(* cbr2cbz: the batch conversion of src/cmd/convert.go (converter,         *)
(* findFilesAndSize, runConvert, findFiles, convert, getFileSize) run      *)
(* against a filesystem whose operations may fail.                         *)
(*                                                                         *)
(* A path string is a record [abs, dir, stem, ext]: abs is the leading     *)
(* "/", dir the directory components, stem and ext the split of the last   *)
(* element at its last dot (filepath.Base = stem ++ ext).  A filesystem    *)
(* path is a path string with abs = FALSE (pathToFsPath).                  *)
(***************************************************************************)
EXTENDS Integers, Sequences, FiniteSets, TLC

VARIABLES
    fs,          \* c.fs: filesystem path -> file content
    fs0,         \* the filesystem before the run (never changes)
    fsCall,      \* the filesystem when the current convert call began
    roots,       \* the paths argument of runConvert
    allFiles,    \* c.allFiles
    cbrFiles,    \* c.cbrFiles
    allSize,     \* c.allSize
    cbrSize,     \* c.cbrSize
    runErr,      \* what runConvert returned ("" while running, "nil", or an error)
    idx,         \* position of the range loop of runConvert in c.cbrFiles
    pc,          \* the statement the run is at
    cbrFile,     \* convert's cbrFile argument
    cbzFile,     \* convert's cbzFile argument
    format,      \* convert's local format
    files,       \* convert's local files
    ret,         \* what the last convert call returned ("" while it runs)
    ops,         \* filesystem mutations the current convert call executed
    calls,       \* the convert invocations of the run, in order
    results,     \* what each finished convert call returned and did, in order
    failedFiles, \* runConvert's local failedFiles
    succLog,     \* sources logged as "Successfully Converted"
    stats,       \* the failedFiles maps handed to printStats
    faults       \* operation failures injected so far

vars == <<fs, fs0, fsCall, roots, allFiles, cbrFiles, allSize, cbrSize, runErr, idx,
          pc, cbrFile, cbzFile, format, files, ret, ops, calls, results, failedFiles,
          succLog, stats, faults>>

-----------------------------------------------------------------------------
(* Bounds *)

MaxRoots == 2
MaxEntries == 3
MaxFaults == 1
MaxPathLen == 5

-----------------------------------------------------------------------------
(* Paths *)

P(abs, dir, stem, ext) == [abs |-> abs, dir |-> dir, stem |-> stem, ext |-> ext]

\* strings.TrimLeft(strings.TrimRight(path, "/"), "/")
pathToFsPath(path) == [path EXCEPT !.abs = FALSE]

\* strings.ToLower on the extensions that occur
ToLower(s) == IF s = ".CBR" THEN ".cbr" ELSE s

\* filepath.Ext
Ext(path) == path.ext

\* runConvert: Join(Dir(cbrFile), TrimSuffix(Base(cbrFile), Ext(cbrFile)) + ".cbz")
DestOf(path) == [path EXCEPT !.ext = ".cbz"]

RootDir == P(FALSE, <<>>, ".", "")
SubDir == P(FALSE, <<>>, "d", "")
Dirs == {RootDir, SubDir}

\* The regular files of the filesystem in the lexical order fs.WalkDir visits them.
WalkOrder ==
    << P(FALSE, <<>>, "a", ".CBR"),
       P(FALSE, <<>>, "a", ".cbr"),
       P(FALSE, <<>>, "a", ".cbz"),
       P(FALSE, <<>>, "c", ".txt"),
       P(FALSE, <<"d">>, "b", ".cbr"),
       P(FALSE, <<"d">>, "b", ".cbz"),
       P(FALSE, <<>>, "z.zip", ".cbr"),
       P(FALSE, <<>>, "z.zip", ".cbz") >>

FsFiles == {WalkOrder[k] : k \in 1..Len(WalkOrder)}

Missing == P(FALSE, <<>>, "m", ".cbr")

-----------------------------------------------------------------------------
(* File contents *)

Absent == [kind |-> "absent", tag |-> "", entries |-> <<>>, complete |-> FALSE]

Entry(name, isDir, data) == [name |-> name, isDir |-> isDir, data |-> data]

Rar(tag, entries) == [kind |-> "rar", tag |-> tag, entries |-> entries, complete |-> TRUE]
Zip(tag) == [kind |-> "zip", tag |-> tag, entries |-> <<>>, complete |-> TRUE]
Tar(tag) == [kind |-> "tar", tag |-> tag, entries |-> <<>>, complete |-> TRUE]
Other(tag) == [kind |-> "other", tag |-> tag, entries |-> <<>>, complete |-> TRUE]

\* What archiver.Zip{}.Archive has put in the destination after n of the entries.
Written(entries, n, complete) ==
    [kind |-> "zip", tag |-> "", entries |-> SubSeq(entries, 1, n), complete |-> complete]

\* What a path holds; a path outside the tree holds nothing.
Content(f, p) == IF p \in DOMAIN f THEN f[p] ELSE Absent

Exists(f, p) == p \in Dirs \/ (p \in DOMAIN f /\ f[p] # Absent)
IsDir(p) == p \in Dirs

\* info.Size(): the RAR and the ZIP fixture of the tests have 140 and 345 bytes.
SizeOf(c) ==
    CASE c.kind = "rar" -> 140
      [] c.kind = "zip" -> 345
      [] c.kind = "tar" -> 512
      [] c.kind = "other" -> 7
      [] OTHER -> 0

-----------------------------------------------------------------------------
(* RAR archives and fs.WalkDir over them *)

\* Entry names are paths inside the archive, one number per path component.
RECURSIVE LexLess(_, _)
LexLess(a, b) ==
    IF a = <<>> THEN b # <<>>
    ELSE IF b = <<>> THEN FALSE
    ELSE IF Head(a) # Head(b) THEN Head(a) < Head(b)
    ELSE LexLess(Tail(a), Tail(b))

RECURSIVE InsertByName(_, _)
InsertByName(e, s) ==
    IF s = <<>> THEN <<e>>
    ELSE IF LexLess(e.name, Head(s).name) THEN <<e>> \o s
    ELSE <<Head(s)>> \o InsertByName(e, Tail(s))

RECURSIVE SortByName(_)
SortByName(s) == IF s = <<>> THEN <<>> ELSE InsertByName(Head(s), SortByName(Tail(s)))

NotDir(e) == ~e.isDir

\* A walk whose callback forgets the de.IsDir() test.
WalkRarKeepDirs(entries) == SortByName(entries)

\* The walk of convert: fs.WalkDir visits the archive in lexical order and the
\* callback appends every entry that is not a directory.
WalkRar(entries) == SelectSeq(SortByName(entries), NotDir)

\* The format whose magic the content opens with.
ByStream(content) ==
    CASE content.kind = "rar" -> "rar"
      [] content.kind = "zip" -> "zip"
      [] content.kind = "tar" -> "tar"
      [] OTHER -> "none"

\* The formats whose name (".zip", ".rar", ".tar") the hint holds somewhere.
ByName(hint) == IF hint.stem = "z.zip" THEN {"zip"} ELSE {}

\* archiver.Identify, called with the path as its hint: the formats that match by
\* name or by stream, of which the registry's iteration returns the first it
\* meets; "none" is archiver.ErrNoMatch, which convert lets through with a nil
\* format.
Identify(hint, content) ==
    LET matched == ByName(hint) \cup ({ByStream(content)} \ {"none"})
    IN IF matched = {} THEN {"none"} ELSE matched

-----------------------------------------------------------------------------
(* Discovery: findFiles, findFilesAndSize, getFileSize *)

DirComponents(d) == IF d.stem = "." THEN <<>> ELSE Append(d.dir, d.stem)

Under(p, d) ==
    LET c == DirComponents(d) IN
    Len(p.dir) >= Len(c) /\ SubSeq(p.dir, 1, Len(c)) = c

\* findFiles: the non-directories under root, each as "/" + path
findFiles(f, root) ==
    LET Hit(p) == f[p] # Absent /\ Under(p, pathToFsPath(root))
        hits == SelectSeq(WalkOrder, Hit)
    IN [k \in 1..Len(hits) |-> [hits[k] EXCEPT !.abs = TRUE]]

\* One iteration of the loop over paths, the stat having succeeded.
RootFiles(f, root) ==
    IF IsDir(pathToFsPath(root)) THEN findFiles(f, root) ELSE <<root>>

\* c.allFiles after the first n iterations of the loop over paths.
RECURSIVE Discover(_, _, _)
Discover(f, rs, n) ==
    IF n = 0 THEN <<>>
    ELSE Discover(f, rs, n - 1) \o RootFiles(f, rs[n])

\* A loop over paths that drops the error of fs.Stat.
FirstBadIgnored(f, rs, inj) == 0

\* The first iteration whose fs.Stat or findFiles fails (0: none); inj is the
\* iteration an injected failure hits.
FirstBad(f, rs, inj) ==
    LET bad == {k \in 1..Len(rs) : ~Exists(f, pathToFsPath(rs[k])) \/ k = inj}
    IN IF bad = {} THEN 0 ELSE CHOOSE k \in bad : \A j \in bad : k <= j

\* A comparison that forgets strings.ToLower.
IsCbrExact(file) == Ext(file) = ".cbr"

IsCbr(file) == ToLower(Ext(file)) = ".cbr"

\* A second loop that keeps every item.
ClassifyAll(found) == found

\* The second loop of findFilesAndSize.
Classify(found) == SelectSeq(found, IsCbr)

\* A getFileSize whose extension test forgets strings.ToLower.
RECURSIVE getFileSizeExact(_, _, _)
getFileSizeExact(f, ext, paths) ==
    IF paths = <<>> THEN 0
    ELSE LET path == Head(paths)
             rest == getFileSizeExact(f, ext, Tail(paths))
         IN IF ext # "" /\ Ext(path) # ext THEN rest
            ELSE SizeOf(Content(f, pathToFsPath(path))) + rest

RECURSIVE getFileSize(_, _, _)
getFileSize(f, ext, paths) ==
    IF paths = <<>> THEN 0
    ELSE LET path == Head(paths)
             rest == getFileSize(f, ext, Tail(paths))
         IN IF ext # "" /\ ToLower(Ext(path)) # ext THEN rest
            ELSE SizeOf(Content(f, pathToFsPath(path))) + rest

Inject == faults < MaxFaults /\ faults' = faults + 1

\* findFilesAndSize, and the return of runConvert when it fails.
Find ==
    /\ pc = "find"
    /\ \E inj \in 0..Len(roots), sz \in {"ok", "all", "cbr"} :
         LET bad == FirstBad(fs, roots, inj)
             found == Discover(fs, roots, IF bad = 0 THEN Len(roots) ELSE bad - 1)
             cands == Classify(found)
             injected == inj # 0 \/ sz # "ok"
         IN /\ inj # 0 => (bad = inj /\ Exists(fs, pathToFsPath(roots[inj])) /\ sz = "ok")
            /\ sz # "ok" => (bad = 0 /\ cands # <<>>)
            /\ IF injected THEN Inject ELSE faults' = faults
            /\ allFiles' = found
            /\ IF bad # 0
               THEN /\ runErr' = IF inj # 0 /\ IsDir(pathToFsPath(roots[bad]))
                                 THEN "finding cbrs" ELSE "error looking up path"
                    /\ UNCHANGED <<cbrFiles, allSize, cbrSize>>
               ELSE /\ cbrFiles' = cands
                    /\ IF cands = <<>>
                       THEN runErr' = "No files to convert!" /\ UNCHANGED <<allSize, cbrSize>>
                       ELSE IF sz = "all"
                       THEN runErr' = "getting non cbr file stats" /\ allSize' = 0
                            /\ UNCHANGED cbrSize
                       ELSE /\ allSize' = getFileSize(fs, "", found)
                            /\ IF sz = "cbr"
                               THEN runErr' = "getting cbr file stats" /\ cbrSize' = 0
                               ELSE runErr' = "" /\ cbrSize' = getFileSize(fs, ".cbr", cands)
            /\ pc' = IF runErr' = "" THEN "loop" ELSE "aborted"
    /\ idx' = 1
    /\ UNCHANGED <<fs, fs0, fsCall, roots, cbrFile, cbzFile, format, files, ret, ops,
                   calls, results, failedFiles, succLog, stats>>

-----------------------------------------------------------------------------
(* runConvert: the loop over c.cbrFiles *)

src == pathToFsPath(cbrFile)
dst == pathToFsPath(cbzFile)

\* An iteration that keeps the destination derived for the first candidate.
CallConvertStale ==
    /\ pc = "loop"
    /\ idx <= Len(cbrFiles)
    /\ cbrFile' = cbrFiles[idx]
    /\ cbzFile' = DestOf(cbrFiles[1])
    /\ calls' = Append(calls, cbrFiles[idx])
    /\ fsCall' = fs
    /\ ret' = ""
    /\ ops' = <<>>
    /\ files' = <<>>
    /\ format' = "unset"
    /\ pc' = "stat"
    /\ UNCHANGED <<fs, fs0, roots, allFiles, cbrFiles, allSize, cbrSize, runErr, idx,
                   results, failedFiles, succLog, stats, faults>>

\* The next iteration of the loop: derive the destination and call convert.
CallConvert ==
    /\ pc = "loop"
    /\ idx <= Len(cbrFiles)
    /\ cbrFile' = cbrFiles[idx]
    /\ cbzFile' = DestOf(cbrFiles[idx])
    /\ calls' = Append(calls, cbrFiles[idx])
    /\ fsCall' = fs
    /\ ret' = ""
    /\ ops' = <<>>
    /\ files' = <<>>
    /\ format' = "unset"
    /\ pc' = "stat"
    /\ UNCHANGED <<fs, fs0, roots, allFiles, cbrFiles, allSize, cbrSize, runErr, idx,
                   results, failedFiles, succLog, stats, faults>>

\* An end of the loop that returns an error when an item failed.
PrintStatsStrict ==
    /\ pc = "loop"
    /\ idx > Len(cbrFiles)
    /\ stats' = Append(stats, failedFiles)
    /\ runErr' = IF DOMAIN failedFiles = {} THEN "nil" ELSE "some conversions failed"
    /\ pc' = "done"
    /\ UNCHANGED <<fs, fs0, fsCall, roots, allFiles, cbrFiles, allSize, cbrSize, idx,
                   cbrFile, cbzFile, format, files, ret, ops, calls, results,
                   failedFiles, succLog, faults>>

\* The loop is over: printStats, return nil.
PrintStats ==
    /\ pc = "loop"
    /\ idx > Len(cbrFiles)
    /\ stats' = Append(stats, failedFiles)
    /\ runErr' = "nil"
    /\ pc' = "done"
    /\ UNCHANGED <<fs, fs0, fsCall, roots, allFiles, cbrFiles, allSize, cbrSize, idx,
                   cbrFile, cbzFile, format, files, ret, ops, calls, results,
                   failedFiles, succLog, faults>>

\* failedFiles[cbrFile] = err
Record(map, key, err) ==
    [k \in DOMAIN map \cup {key} |-> IF k = key THEN err ELSE map[k]]

\* What one convert call did: its return value, whether one of its operations
\* failed, and the filesystem mutations it executed.
Result(err, failed, done) ==
    [src |-> cbrFile, content |-> Content(fsCall, src), ret |-> err, failed |-> failed,
     ops |-> done]

\* convert returns err: the loop records it and continues.
Fail(err, done) ==
    /\ ret' = err
    /\ ops' = done
    /\ results' = Append(results, Result(err, TRUE, done))
    /\ failedFiles' = Record(failedFiles, cbrFile, err)
    /\ idx' = idx + 1
    /\ pc' = "loop"
    /\ UNCHANGED succLog

\* convert logs "Successfully Converted" and returns nil.
Succeed(failed, done) ==
    /\ ret' = "nil"
    /\ ops' = done
    /\ results' = Append(results, Result("nil", failed, done))
    /\ succLog' = Append(succLog, cbrFile)
    /\ idx' = idx + 1
    /\ pc' = "loop"
    /\ UNCHANGED failedFiles

Continue(next, done) ==
    /\ pc' = next
    /\ ops' = done
    /\ UNCHANGED <<ret, results, failedFiles, idx, succLog>>

-----------------------------------------------------------------------------
(* convert, one filesystem or codec operation per step *)

Stat ==
    /\ pc = "stat"
    /\ \/ /\ ~Exists(fs, src)
          /\ Fail("stating file", ops)
          /\ UNCHANGED faults
       \/ /\ Exists(fs, src)
          /\ Inject
          /\ Fail("stating file", ops)
       \/ /\ Exists(fs, src)
          /\ UNCHANGED faults
          /\ IF IsDir(src) THEN Fail("is a directory", ops) ELSE Continue("open", ops)
    /\ UNCHANGED <<fs, fs0, fsCall, roots, allFiles, cbrFiles, allSize, cbrSize, runErr,
                   cbrFile, cbzFile, format, files, calls, stats>>

Open ==
    /\ pc = "open"
    /\ \/ Inject /\ Fail("trying to open cbr", ops)
       \/ UNCHANGED faults /\ Continue("identify", ops)
    /\ UNCHANGED <<fs, fs0, fsCall, roots, allFiles, cbrFiles, allSize, cbrSize, runErr,
                   cbrFile, cbzFile, format, files, calls, stats>>

\* A dispatch that takes whatever is not RAR for a ZIP.
DispatchNoReject(fmt) ==
    IF fmt = "rar" THEN Continue("walk", ops) ELSE Continue("rename", ops)

\* The two type switches on the format archiver.Identify returned.
Dispatch(fmt) ==
    CASE fmt = "zip" -> Continue("rename", ops)
      [] fmt = "rar" -> Continue("walk", ops)
      [] OTHER -> Fail("not a rar file", ops)

\* archiver.Identify and the branch on its result.
Sniff ==
    /\ pc = "identify"
    /\ \/ /\ Inject
          /\ Fail("unable to identify", ops)
          /\ UNCHANGED format
       \/ /\ UNCHANGED faults
          /\ \E fmt \in Identify(src, fs[src]) :
               /\ format' = fmt
               /\ Dispatch(fmt)
    /\ UNCHANGED <<fs, fs0, fsCall, roots, allFiles, cbrFiles, allSize, cbrSize, runErr,
                   cbrFile, cbzFile, files, calls, stats>>

\* hackpadfs.Rename, its error dropped.
Rename ==
    /\ pc = "rename"
    /\ \/ /\ UNCHANGED faults
          /\ fs' = [fs EXCEPT ![dst] = fs[src], ![src] = Absent]
          /\ Succeed(FALSE, Append(ops, "rename"))
       \/ /\ Inject
          /\ UNCHANGED fs
          /\ Succeed(TRUE, ops)
    /\ UNCHANGED <<fs0, fsCall, roots, allFiles, cbrFiles, allSize, cbrSize, runErr,
                   cbrFile, cbzFile, format, files, calls, stats>>

Walk ==
    /\ pc = "walk"
    /\ \/ /\ Inject
          /\ Fail("walking rar file", ops)
          /\ UNCHANGED files
       \/ /\ UNCHANGED faults
          /\ files' = WalkRar(fs[src].entries)
          /\ Continue("create", ops)
    /\ UNCHANGED <<fs, fs0, fsCall, roots, allFiles, cbrFiles, allSize, cbrSize, runErr,
                   cbrFile, cbzFile, format, calls, stats>>

Create ==
    /\ pc = "create"
    /\ \/ /\ Inject
          /\ Fail("unable to create zip", ops)
          /\ UNCHANGED fs
       \/ /\ UNCHANGED faults
          /\ fs' = [fs EXCEPT ![dst] = Written(files, 0, FALSE)]
          /\ Continue("archive", Append(ops, "create"))
    /\ UNCHANGED <<fs0, fsCall, roots, allFiles, cbrFiles, allSize, cbrSize, runErr,
                   cbrFile, cbzFile, format, files, calls, stats>>

\* An Archive step whose error is dropped.
ArchiveUnchecked ==
    /\ pc = "archive"
    /\ \/ /\ Inject
          /\ \E n \in 0..Len(files) : fs' = [fs EXCEPT ![dst] = Written(files, n, FALSE)]
       \/ /\ UNCHANGED faults
          /\ fs' = [fs EXCEPT ![dst] = Written(files, Len(files), TRUE)]
    /\ Continue("remove", Append(ops, "write"))
    /\ UNCHANGED <<fs0, fsCall, roots, allFiles, cbrFiles, allSize, cbrSize, runErr,
                   cbrFile, cbzFile, format, files, calls, stats>>

\* archiver.Zip{}.Archive: a failure leaves what was written so far.
Archive ==
    /\ pc = "archive"
    /\ \/ /\ Inject
          /\ \E n \in 0..Len(files) : fs' = [fs EXCEPT ![dst] = Written(files, n, FALSE)]
          /\ Fail("unable to archive zip", Append(ops, "write"))
       \/ /\ UNCHANGED faults
          /\ fs' = [fs EXCEPT ![dst] = Written(files, Len(files), TRUE)]
          /\ Continue("remove", Append(ops, "write"))
    /\ UNCHANGED <<fs0, fsCall, roots, allFiles, cbrFiles, allSize, cbrSize, runErr,
                   cbrFile, cbzFile, format, files, calls, stats>>

\* A Remove step that reports its failure under the message of the write.
RemoveMislabelled ==
    /\ pc = "remove"
    /\ \/ /\ Inject
          /\ Fail("unable to archive zip", ops)
          /\ UNCHANGED fs
       \/ /\ UNCHANGED faults
          /\ fs' = [fs EXCEPT ![src] = Absent]
          /\ Succeed(FALSE, Append(ops, "remove"))
    /\ UNCHANGED <<fs0, fsCall, roots, allFiles, cbrFiles, allSize, cbrSize, runErr,
                   cbrFile, cbzFile, format, files, calls, stats>>

\* hackpadfs.Remove of the source, after the archive is written.
Remove ==
    /\ pc = "remove"
    /\ \/ /\ Inject
          /\ Fail("deleting old cbr", ops)
          /\ UNCHANGED fs
       \/ /\ UNCHANGED faults
          /\ fs' = [fs EXCEPT ![src] = Absent]
          /\ Succeed(FALSE, Append(ops, "remove"))
    /\ UNCHANGED <<fs0, fsCall, roots, allFiles, cbrFiles, allSize, cbrSize, runErr,
                   cbrFile, cbzFile, format, files, calls, stats>>

-----------------------------------------------------------------------------
(* Initial states *)

A1 == P(FALSE, <<>>, "a", ".cbr")
A2 == P(FALSE, <<>>, "a", ".CBR")
AZ == P(FALSE, <<>>, "a", ".cbz")
CT == P(FALSE, <<>>, "c", ".txt")
DB == P(FALSE, <<"d">>, "b", ".cbr")
DZ == P(FALSE, <<"d">>, "b", ".cbz")
ZC == P(FALSE, <<>>, "z.zip", ".cbr")
ZZ == P(FALSE, <<>>, "z.zip", ".cbz")

\* The archive of the RAR files of a batch: not in lexical order, one directory entry.
Pages(tag) ==
    << Entry(<<2>>, FALSE, tag), Entry(<<3>>, TRUE, ""), Entry(<<3, 1>>, FALSE, tag),
       Entry(<<1>>, FALSE, tag) >>

EntryNames == {<<1>>, <<2>>, <<3>>, <<3, 1>>}
EntryOf(name, tag) == Entry(name, name = <<3>>, IF name = <<3>> THEN "" ELSE tag)

\* The archives of at most MaxEntries entries, no name twice.
Archives(tag) ==
    LET lists == UNION {[1..n -> EntryNames] : n \in 0..MaxEntries}
        distinct == {l \in lists : \A i, j \in 1..Len(l) : i # j => l[i] # l[j]}
    IN {[k \in 1..Len(l) |-> EntryOf(l[k], tag)] : l \in distinct}

Blank ==
    /\ allFiles = <<>>
    /\ cbrFiles = <<>>
    /\ allSize = 0
    /\ cbrSize = 0
    /\ runErr = ""
    /\ idx = 1
    /\ pc = "find"
    /\ cbrFile = Missing
    /\ cbzFile = Missing
    /\ format = "unset"
    /\ files = <<>>
    /\ ret = ""
    /\ ops = <<>>
    /\ calls = <<>>
    /\ results = <<>>
    /\ failedFiles = <<>>
    /\ succLog = <<>>
    /\ stats = <<>>
    /\ faults = 0
    /\ fs0 = fs
    /\ fsCall = fs

\* The paths a run may be given: a directory, a sub-directory, files and a path
\* that does not exist.
RootPaths == {RootDir, SubDir, A1, A2, Missing}

RootLists == UNION {[1..n -> RootPaths] : n \in 1..MaxRoots}

\* A batch over a directory tree.
InitRun ==
    /\ \E a1 \in {Absent, Rar("a.cbr", Pages("a.cbr")), Zip("a.cbr"), Tar("a.cbr"),
                  Other("a.cbr")},
          a2 \in {Absent, Rar("a.CBR", Pages("a.CBR"))},
          az \in {Absent, Zip("a.cbz")},
          db \in {Absent, Rar("b.cbr", Pages("b.cbr")), Other("b.cbr")} :
         fs = (A1 :> a1) @@ (A2 :> a2) @@ (AZ :> az) @@ (CT :> Other("c.txt"))
              @@ (DB :> db) @@ (DZ :> Absent) @@ (ZC :> Absent) @@ (ZZ :> Absent)
    /\ roots \in RootLists
    /\ Blank

\* One candidate holding any archive.
InitArchive ==
    /\ \E a1 \in Archives("a.cbr") :
         fs = (A1 :> Rar("a.cbr", a1)) @@ (A2 :> Absent) @@ (AZ :> Absent)
              @@ (CT :> Absent) @@ (DB :> Absent) @@ (DZ :> Absent)
              @@ (ZC :> Absent) @@ (ZZ :> Absent)
    /\ roots = <<A1>>
    /\ Blank

\* Two candidates holding the same bytes under different names.
InitNames ==
    /\ \E c \in {Rar("x", Pages("x")), Zip("x"), Tar("x"), Other("x")} :
         fs = (A1 :> c) @@ (A2 :> Absent) @@ (AZ :> Absent) @@ (CT :> Absent)
              @@ (DB :> Absent) @@ (DZ :> Absent) @@ (ZC :> c) @@ (ZZ :> Absent)
    /\ roots \in {<<RootDir>>, <<ZC, A1>>}
    /\ Blank

Init == InitRun \/ InitArchive \/ InitNames

Next ==
    \/ Find
    \/ CallConvert
    \/ PrintStats
    \/ Stat
    \/ Open
    \/ Sniff
    \/ Rename
    \/ Walk
    \/ Create
    \/ Archive
    \/ Remove

Spec == Init /\ [][Next]_vars

-----------------------------------------------------------------------------
(* The destination path, on the text of the path *)

\* The text of a path is a sequence of tokens: the separator "/", the dot ".",
\* and pieces of names that hold neither.
PathTokens == {"/", ".", "a", "cbr", "CBR"}

Last(t) == t[Len(t)]
Front(t) == SubSeq(t, 1, Len(t) - 1)

\* strings.ToLower
TToLower(t) == [k \in 1..Len(t) |-> IF t[k] = "CBR" THEN "cbr" ELSE t[k]]

\* filepath.Ext: from the last dot of the last element on
RECURSIVE TExt(_)
TExt(t) ==
    IF t = <<>> \/ Last(t) = "/" THEN <<>>
    ELSE IF Last(t) = "." THEN <<".">>
    ELSE LET e == TExt(Front(t)) IN IF e = <<>> THEN <<>> ELSE Append(e, Last(t))

RECURSIVE TrimSlashes(_)
TrimSlashes(t) == IF t # <<>> /\ Last(t) = "/" THEN TrimSlashes(Front(t)) ELSE t

\* The text after the last separator.
RECURSIVE LastElement(_)
LastElement(t) ==
    IF t = <<>> \/ Last(t) = "/" THEN <<>> ELSE Append(LastElement(Front(t)), Last(t))

\* filepath.Base
TBase(t) ==
    IF t = <<>> THEN <<".">>
    ELSE IF TrimSlashes(t) = <<>> THEN <<"/">>
    ELSE LastElement(TrimSlashes(t))

\* The elements between the separators, the empty ones included.
RECURSIVE Elements(_)
Elements(t) ==
    IF t = <<>> THEN << <<>> >>
    ELSE LET es == Elements(Front(t)) IN
         IF Last(t) = "/" THEN Append(es, <<>>)
         ELSE Append(Front(es), Append(Last(es), Last(t)))

\* filepath.Clean on the elements: "." and empty elements go, ".." takes the
\* element before it along, or goes itself at the root.
RECURSIVE CleanElements(_, _)
CleanElements(es, rooted) ==
    IF es = <<>> THEN <<>>
    ELSE LET done == CleanElements(Front(es), rooted)
             e == Last(es)
         IN IF e = <<>> \/ e = <<".">> THEN done
            ELSE IF e = <<".", ".">>
            THEN IF done # <<>> /\ Last(done) # <<".", ".">> THEN Front(done)
                 ELSE IF rooted THEN done ELSE Append(done, e)
            ELSE Append(done, e)

RECURSIVE JoinElements(_)
JoinElements(es) ==
    IF es = <<>> THEN <<>>
    ELSE IF Len(es) = 1 THEN es[1]
    ELSE JoinElements(Front(es)) \o <<"/">> \o Last(es)

\* filepath.Clean
TClean(t) ==
    LET rooted == t # <<>> /\ t[1] = "/"
        es == CleanElements(Elements(t), rooted)
    IN IF rooted THEN <<"/">> \o JoinElements(es)
       ELSE IF es = <<>> THEN <<".">> ELSE JoinElements(es)

\* The text up to and with the last separator.
RECURSIVE UpToSlash(_)
UpToSlash(t) == IF t = <<>> \/ Last(t) = "/" THEN t ELSE UpToSlash(Front(t))

\* filepath.Dir
TDir(t) == TClean(UpToSlash(t))

\* filepath.Join of two elements
TJoin(a, b) ==
    IF a = <<>> THEN (IF b = <<>> THEN <<>> ELSE TClean(b))
    ELSE IF b = <<>> THEN TClean(a)
    ELSE TClean(a \o <<"/">> \o b)

HasSuffix(t, suffix) ==
    Len(t) >= Len(suffix) /\ SubSeq(t, Len(t) - Len(suffix) + 1, Len(t)) = suffix

\* strings.TrimSuffix
TrimSuffix(t, suffix) ==
    IF HasSuffix(t, suffix) THEN SubSeq(t, 1, Len(t) - Len(suffix)) ELSE t

\* A derivation that trims the literal ".cbr".
TDestOfExact(t) ==
    TJoin(TDir(t), TrimSuffix(TBase(t), <<".", "cbr">>) \o <<".", "cbz">>)

\* runConvert: Join(Dir(cbrFile), TrimSuffix(Base(cbrFile), Ext(cbrFile)) + ".cbz")
TDestOf(t) ==
    TJoin(TDir(t), TrimSuffix(TBase(t), TExt(t)) \o <<".", "cbz">>)

\* The test of the second loop of findFilesAndSize, on the text.
TIsCbr(t) == TToLower(TExt(t)) = <<".", "cbr">>

PathTexts == UNION {[1..n -> PathTokens] : n \in 1..MaxPathLen}

\* The derivation of one candidate's destination.
Derive ==
    /\ pc = "derive"
    /\ cbzFile' = TDestOf(cbrFile)
    /\ pc' = "derived"
    /\ UNCHANGED <<fs, fs0, fsCall, roots, allFiles, cbrFiles, allSize, cbrSize, runErr,
                   idx, cbrFile, format, files, ret, ops, calls, results, failedFiles,
                   succLog, stats, faults>>

\* Any candidate path, before its destination is derived.
InitPath ==
    /\ cbrFile \in {t \in PathTexts : TIsCbr(t)}
    /\ cbzFile = <<>>
    /\ pc = "derive"
    /\ fs = [p \in FsFiles |-> Absent]
    /\ fs0 = fs
    /\ fsCall = fs
    /\ roots = <<>>
    /\ allFiles = <<>>
    /\ cbrFiles = <<>>
    /\ allSize = 0
    /\ cbrSize = 0
    /\ runErr = ""
    /\ idx = 1
    /\ format = "unset"
    /\ files = <<>>
    /\ ret = ""
    /\ ops = <<>>
    /\ calls = <<>>
    /\ results = <<>>
    /\ failedFiles = <<>>
    /\ succLog = <<>>
    /\ stats = <<>>
    /\ faults = 0

SpecPath == InitPath /\ [][Derive]_vars

-----------------------------------------------------------------------------
(* Properties *)

Has(s, x) == \E k \in 1..Len(s) : s[k] = x

FsSrc(k) == pathToFsPath(results[k].src)
FsDst(k) == pathToFsPath(DestOf(results[k].src))

\* C1: in the transcode branch the removal of the source is the last filesystem
\* mutation, after the destination was created and the ZIP write succeeded; when
\* the creation or the write fails, convert returns an error and the source still
\* exists with the content it had.
C1_RemoveLast ==
    format = "rar" =>
      /\ ops \in {<<>>, <<"create">>, <<"create", "write">>,
                  <<"create", "write", "remove">>}
      /\ Has(ops, "remove") =>
           /\ ret = "nil"
           /\ fs[dst].complete
           /\ fs[dst].entries = files
      /\ ret \in {"unable to create zip", "unable to archive zip"} =>
           /\ ~Has(ops, "remove")
           /\ fs[src] # Absent
           /\ fs[src] = fsCall[src]

C1_Witness ==
    /\ format = "rar"
    /\ ret = "unable to archive zip"
    /\ ops = <<"create", "write">>
    /\ fs[src] # Absent

\* C2 (as claimed): in a finished run in which exactly one candidate failed
\* conversion, convert was invoked for every candidate, the failing one is in
\* failedFiles, and every other candidate has its source gone and its
\* destination present.
C2_Isolation ==
    pc = "done" =>
      LET bad == {k \in 1..Len(results) : results[k].failed} IN
      Cardinality(bad) = 1 =>
        /\ Len(calls) = Len(cbrFiles)
        /\ \A k \in 1..Len(results) :
             IF k \in bad
             THEN results[k].src \in DOMAIN failedFiles
             ELSE ~Exists(fs, FsSrc(k)) /\ Exists(fs, FsDst(k))

\* C3 (as claimed): once convert has returned for a candidate sniffed as ZIP (it
\* returns nil on that branch), the source is gone, the destination holds the
\* bytes the source held, and neither the destination create nor the ZIP write
\* was executed.
C3_Mislabeled ==
    (format = "zip" /\ ret = "nil") =>
      /\ ~Exists(fs, src)
      /\ fs[dst] = fsCall[src]
      /\ ~Has(ops, "create")
      /\ ~Has(ops, "write")

NonDirs(entries) == {entries[k] : k \in {j \in 1..Len(entries) : ~entries[j].isDir}}

\* C4 (as claimed): after a successful transcode the destination holds the
\* non-directory entries of the source, in the source's order.
C4_SourceOrder ==
    (format = "rar" /\ ret = "nil") =>
      /\ fs[dst].complete
      /\ fs[dst].entries = SelectSeq(fsCall[src].entries, NotDir)

\* C4 (amended): after a successful transcode the destination holds exactly the
\* non-directory entries of the source, names and content kept, no directory
\* entry among them, in the lexical order of their names.
C4_Completeness ==
    (format = "rar" /\ ret = "nil") =>
      LET out == fs[dst].entries
          want == NonDirs(fsCall[src].entries)
      IN /\ fs[dst].complete
         /\ Len(out) = Cardinality(want)
         /\ \A e \in want : Has(out, e)
         /\ \A k \in 1..Len(out) : ~out[k].isDir
         /\ \A i, j \in 1..Len(out) : i < j => LexLess(out[i].name, out[j].name)

C4_Witness ==
    /\ format = "rar"
    /\ ret = "nil"
    /\ Len(fs[dst].entries) >= 2
    /\ Len(fsCall[src].entries) > Len(fs[dst].entries)
    /\ fs[dst].entries # SelectSeq(fsCall[src].entries, NotDir)

\* C5 (as claimed): when convert fails because the destination creation or the
\* ZIP write failed, the destination path holds no partially written file.
C5_NoPartialDestination ==
    ret \in {"unable to create zip", "unable to archive zip"} =>
      (fs[dst] = Absent \/ fs[dst].complete)

\* C6 (as claimed): two distinct candidate sources with one destination never
\* both write it: the later one writes nothing and is reported as an error.
C6_NoCollision ==
    \A i, j \in 1..Len(results) :
      (i < j /\ FsSrc(i) # FsSrc(j) /\ FsDst(i) = FsDst(j)) =>
        \/ results[i].ops = <<>>
        \/ results[j].ops = <<>> /\ results[j].ret # "nil"

\* C7: when the content is identified as neither RAR nor ZIP, convert returns an
\* error and mutates nothing: the filesystem is the one the call began with.
C7_Rejection ==
    format \in {"none", "tar"} =>
      /\ ret = "not a rar file"
      /\ ops = <<>>
      /\ fs = fsCall

C7_Witness ==
    /\ format = "none"
    /\ ret = "not a rar file"
    /\ fs[src].kind = "other"
    /\ \E k \in 1..Len(results) : results[k].ret = "not a rar file" /\ FsSrc(k) # src

\* C8 (as claimed): the discovered list holds regular files only, and each file
\* at most once, whatever the roots.
C8_Deduplicated ==
    pc # "find" =>
      /\ \A k \in 1..Len(allFiles) :
           pathToFsPath(allFiles[k]) \in FsFiles /\ fs0[pathToFsPath(allFiles[k])] # Absent
      /\ \A i, j \in 1..Len(allFiles) :
           i # j => pathToFsPath(allFiles[i]) # pathToFsPath(allFiles[j])

RootStatFailed ==
    \/ runErr = "error looking up path"
    \/ \E k \in 1..Len(roots) : ~Exists(fs0, pathToFsPath(roots[k]))

\* C9 (as claimed): when the stat of a root fails, the run ends with an error, the
\* item list and the candidate list hold nothing, and no conversion is attempted.
C9_NoPartialResults ==
    (pc # "find" /\ RootStatFailed) =>
      /\ pc = "aborted"
      /\ runErr \notin {"", "nil"}
      /\ allFiles = <<>>
      /\ cbrFiles = <<>>
      /\ calls = <<>>

\* C9 (amended): when the stat of a root fails, the run ends with an error, the
\* candidate list holds nothing, no conversion is attempted and the filesystem is
\* untouched; the item list may hold the items of the roots before the failing one.
C9_Aborts ==
    (pc # "find" /\ RootStatFailed) =>
      /\ pc = "aborted"
      /\ runErr \notin {"", "nil"}
      /\ cbrFiles = <<>>
      /\ calls = <<>>
      /\ stats = <<>>
      /\ fs = fs0

C9_Witness ==
    /\ pc = "aborted"
    /\ runErr = "error looking up path"
    /\ allFiles # <<>>
    /\ Len(roots) > 1

CbrPositions == {k \in 1..Len(allFiles) : allFiles[k].ext \in {".cbr", ".CBR"}}

\* C10: after findFilesAndSize succeeded, cbrFiles is the sub-list of allFiles,
\* in order, of the items whose extension is ".cbr" in any letter case.
C10_Classification ==
    pc \notin {"find", "aborted"} =>
      /\ Len(cbrFiles) = Cardinality(CbrPositions)
      /\ \A k \in CbrPositions :
           cbrFiles[Cardinality({j \in CbrPositions : j <= k})] = allFiles[k]

C10_Witness ==
    /\ pc = "loop"
    /\ \E k \in 1..Len(cbrFiles) : cbrFiles[k].ext = ".CBR"
    /\ \E k \in 1..Len(cbrFiles) : cbrFiles[k].ext = ".cbr"
    /\ \E k \in 1..Len(allFiles) : allFiles[k].ext = ".txt"
    /\ Len(cbrFiles) >= 3

\* The items of a list that hold content of one kind.
OfKind(list, kind) ==
    Cardinality({k \in 1..Len(list) : Content(fs0, pathToFsPath(list[k])).kind = kind})

\* The bytes of a list, kind by kind.
TotalBytes(list) ==
    140 * OfKind(list, "rar") + 345 * OfKind(list, "zip") + 512 * OfKind(list, "tar")
      + 7 * OfKind(list, "other")

\* C11: after findFilesAndSize succeeded, allSize is the sum of the sizes of the
\* discovered items and cbrSize the sum of the sizes of the candidates, so neither
\* the size nor the count subtraction of the report underflows.
C11_Statistics ==
    pc \notin {"find", "aborted"} =>
      /\ allSize = TotalBytes(allFiles)
      /\ cbrSize = TotalBytes(cbrFiles)
      /\ cbrSize <= allSize
      /\ Len(cbrFiles) <= Len(allFiles)

C11_Witness ==
    /\ pc = "loop"
    /\ Len(cbrFiles) = 2
    /\ Len(allFiles) = 3
    /\ cbrSize = 280
    /\ allSize = 287
    /\ \E k \in 1..Len(cbrFiles) : cbrFiles[k].ext = ".CBR"

CbrExt(p) == p.ext \in {".cbr", ".CBR"}

\* Some file under the roots, or some root that is a file, has the .cbr extension.
RootsHoldCandidate ==
    \E k \in 1..Len(roots) :
      LET r == pathToFsPath(roots[k]) IN
      IF IsDir(r)
      THEN \E p \in FsFiles : fs0[p] # Absent /\ Under(p, r) /\ CbrExt(p)
      ELSE CbrExt(r)

\* C12: when the roots hold no file with the .cbr extension, the run ends before
\* any convert call with the filesystem as it was, and with 'No files to convert!'
\* unless looking a root up failed first.
C12_EmptyBatch ==
    (pc # "find" /\ ~RootsHoldCandidate) =>
      /\ pc = "aborted"
      /\ calls = <<>>
      /\ stats = <<>>
      /\ fs = fs0
      /\ runErr \notin {"error looking up path", "finding cbrs"} =>
           runErr = "No files to convert!"

C12_Witness ==
    /\ runErr = "No files to convert!"
    /\ ~RootsHoldCandidate
    /\ Len(allFiles) >= 2
    /\ fs = fs0

\* The record of a path text: its root flag, its directory, and the last element
\* split at its last dot.
Parsed(t) ==
    P(t[1] = "/", TDir(t), SubSeq(TBase(t), 1, Len(TBase(t)) - Len(TExt(t))),
      TToLower(TExt(t)))

\* C13: the destination of a candidate is in the source's directory, has the
\* source's stem and the extension ".cbz", whatever the case of the source's
\* extension; on the parsed path, only the extension differs.
C13_PathDerivation ==
    pc = "derived" =>
      LET base == TBase(cbrFile)
          stem == SubSeq(base, 1, Len(base) - 2)
      IN /\ TDir(cbzFile) = TDir(cbrFile)
         /\ TBase(cbzFile) = stem \o <<".", "cbz">>
         /\ TExt(cbzFile) = <<".", "cbz">>
         /\ Parsed(cbzFile) = [Parsed(cbrFile) EXCEPT !.ext = <<".", "cbz">>]

C13_Witness ==
    /\ pc = "derived"
    /\ cbrFile = <<"a", "/", "a", ".", "CBR">>
    /\ cbzFile = <<"a", "/", "a", ".", "cbz">>

ReturnsError == runErr \notin {"", "nil"}

\* C14 as stated: runConvert returns an error only for a root that cannot be
\* stat-ed, a failed walk, or an empty candidate list. Violated: a failed stat
\* while the sizes are summed is returned too.
C14_ThreeSetupErrors ==
    ReturnsError => runErr \in {"error looking up path", "finding cbrs", "No files to convert!"}

\* C14, amended: runConvert returns an error only from findFilesAndSize, before
\* convert is called for any candidate; once the loop runs, every candidate gets
\* its call and runConvert returns nil, whatever the calls returned.
C14_SetupOnly ==
    /\ ReturnsError =>
         /\ pc = "aborted"
         /\ calls = <<>>
         /\ runErr \in {"error looking up path", "finding cbrs", "No files to convert!",
                        "getting non cbr file stats", "getting cbr file stats"}
    /\ calls # <<>> => ~ReturnsError
    /\ pc = "done" =>
         /\ runErr = "nil"
         /\ Len(results) = Len(cbrFiles)
         /\ \A k \in 1..Len(results) :
              results[k].ret # "nil" => results[k].src \in DOMAIN failedFiles

C14_Witness ==
    /\ pc = "done"
    /\ runErr = "nil"
    /\ Len(results) = 2
    /\ \A k \in 1..2 : results[k].ret # "nil"
    /\ Cardinality(DOMAIN failedFiles) = 2

\* The call that just returned wrote the whole archive to its destination.
WroteAll ==
    /\ ops = <<"create", "write">>
    /\ fs[dst] = Written(files, Len(files), TRUE)

\* C15: a convert call that wrote the whole archive and then returned an error
\* returned "deleting old cbr", an error no earlier failure returns; the source is
\* then as it was before the call and the destination holds every non-directory
\* entry of the source.
C15_CleanupFailure ==
    (pc \in {"loop", "done"} /\ ret \notin {"", "nil"}) =>
      /\ WroteAll <=> ret = "deleting old cbr"
      /\ ret = "deleting old cbr" =>
           /\ fs[src] = fsCall[src]
           /\ fs[src].kind = "rar"
           /\ files = WalkRar(fs[src].entries)
           /\ failedFiles[cbrFile] = "deleting old cbr"

C15_Witness ==
    /\ ret = "deleting old cbr"
    /\ fs[src].kind = "rar"
    /\ fs[dst] = Written(files, Len(files), TRUE)
    /\ Len(files) >= 2

\* The branch a finished convert call took, read off what it returned and did.
Branch(r) ==
    CASE r.ret = "not a rar file" -> "reject"
      [] r.ret = "nil" /\ r.ops \in {<<>>, <<"rename">>} -> "rename"
      [] r.ret \in {"walking rar file", "unable to create zip", "unable to archive zip",
                    "deleting old cbr"} -> "transcode"
      [] r.ret = "nil" -> "transcode"
      [] OTHER -> "none"

\* C16: two convert calls on identical content take the same branch, whatever the
\* names of the two files. Violated: the path is the hint of archiver.Identify,
\* and a name holding ".zip" matches the ZIP format on its own.
C16_ContentOnly ==
    \A j, k \in 1..Len(results) :
      (/\ results[j].content = results[k].content
       /\ Branch(results[j]) # "none"
       /\ Branch(results[k]) # "none")
      => Branch(results[j]) = Branch(results[k])

\* C17: convert is called for the candidates in discovery order, once each, and
\* never twice for one path in a run. Violated: a path reached through two roots
\* is a candidate twice (C8) and convert is called for it twice.
C17_OncePerPath ==
    /\ Len(calls) <= Len(cbrFiles)
    /\ \A k \in 1..Len(calls) : calls[k] = cbrFiles[k]
    /\ pc = "done" => Len(calls) = Len(cbrFiles)
    /\ \A j, k \in 1..Len(calls) :
         j # k => pathToFsPath(calls[j]) # pathToFsPath(calls[k])

\* C18: a convert call one of whose operations failed returns an error and logs
\* no success. Violated: the error of hackpadfs.Rename is dropped.
C18_FailuresReturned ==
    /\ \A k \in 1..Len(results) : results[k].failed => results[k].ret # "nil"
    /\ Len(succLog) = Cardinality({k \in 1..Len(results) : ~results[k].failed})

\* The calls of the run that converted their source.
Converted == {k \in 1..Len(results) : results[k].ret = "nil" /\ ~results[k].failed}

\* The candidates of the run that no call converted.
NotConverted ==
    {cbrFiles[k] : k \in 1..Len(cbrFiles)} \ {results[k].src : k \in Converted}

\* C19: when setup succeeds printStats is called once, after the last convert
\* call, with the paths no call converted as the keys of failedFiles, each with the
\* error of its call. Violated: a failed rename is not recorded (C18), and a path
\* listed twice (C8) is converted and then recorded as failed.
C19_FailedFilesExact ==
    /\ pc # "done" => stats = <<>>
    /\ pc = "done" =>
         /\ Len(stats) = 1
         /\ Len(results) = Len(cbrFiles)
         /\ DOMAIN stats[1] = NotConverted
         /\ \A k \in 1..Len(results) :
              results[k].src \in NotConverted => stats[1][results[k].src] = results[k].ret

\* C20: a convert call that found a file at its destination returns an error and
\* leaves that file as it was. Violated: Rename replaces it and Create truncates
\* it, and convert returns nil.
C20_DestinationKept ==
    (pc \in {"loop", "done"} /\ ret # "" /\ Content(fsCall, dst) # Absent) =>
      /\ ret # "nil"
      /\ fs[dst] = fsCall[dst]

\* The content of candidate c can still be read from the filesystem: at its
\* source, or at its destination as the renamed bytes or as a complete archive of
\* its entries.
Recoverable(c) ==
    LET s == pathToFsPath(c)
        d == pathToFsPath(DestOf(c))
        orig == fs0[s]
    IN \/ fs[s] = orig
       \/ fs[d] = orig
       \/ /\ orig.kind = "rar"
          /\ fs[d] = Written(WalkRar(orig.entries), Len(WalkRar(orig.entries)), TRUE)

\* C21: in every state of a run the content of every candidate is recoverable.
\* Violated: a.CBR and a.cbr share the destination a.cbz (C6), and the second
\* conversion replaces what the first one wrote after its source was removed.
C21_NoDataLoss ==
    pc \notin {"find", "aborted", "derive", "derived"} =>
      \A k \in 1..Len(cbrFiles) : Recoverable(cbrFiles[k])

\* The source and the derived destination of a candidate.
Pair(c) == {pathToFsPath(c), pathToFsPath(DestOf(c))}

\* C22: a call of convert changes only the source and the destination of its
\* candidate, and a run changes no file that is neither a candidate nor a
\* candidate's destination, discovered or not.
C22_Frame ==
    /\ \A p \in FsFiles : fs[p] # fsCall[p] => (calls # <<>> /\ p \in Pair(cbrFile))
    /\ \A p \in FsFiles :
         fs[p] # fs0[p] => \E k \in 1..Len(cbrFiles) : p \in Pair(cbrFiles[k])

C22_Witness ==
    /\ pc = "done"
    /\ roots = <<RootDir>>
    /\ fs[DB] = Absent
    /\ fs[DZ] # Absent
    /\ \A k \in 1..Len(cbrFiles) : AZ \notin Pair(cbrFiles[k])
    /\ \E k \in 1..Len(allFiles) : pathToFsPath(allFiles[k]) = AZ
    /\ fs[AZ] = fs0[AZ]
    /\ fs[AZ] # Absent
    /\ fs[CT] = fs0[CT]

====
